---- MODULE Spec2Model ----
(***************************************************************************)
(* Model of src/LambdaFunction.py: the S3-triggered CSV filter.            *)
(*                                                                         *)
(* Strings are sequences of one-character strings, so that strip, lower,   *)
(* replace, startswith and strptime are computed character by character.   *)
(* The object body is held as the rows csv.reader yields for its lines     *)
(* (a blank line is the empty row).                                        *)
(***************************************************************************)
EXTENDS Integers, Sequences, FiniteSets, TLC

\* ------------------------------------------------------------------ bounds
MaxRows == 2
MaxKeyLen == 4
MaxHeaders == 2
MaxCands == 2

\* ------------------------------------------------- str methods of Python
Whitespace == {" ", "\t"}

UpperToLower ==
  [A |-> "a", B |-> "b", C |-> "c", D |-> "d", E |-> "e", F |-> "f",
   G |-> "g", H |-> "h", I |-> "i", J |-> "j", K |-> "k", L |-> "l",
   M |-> "m", N |-> "n", O |-> "o", P |-> "p", Q |-> "q", R |-> "r",
   S |-> "s", T |-> "t", U |-> "u", V |-> "v", W |-> "w", X |-> "x",
   Y |-> "y", Z |-> "z"]

LowerChar(c) == IF c \in DOMAIN UpperToLower THEN UpperToLower[c] ELSE c

\* str.lower()
Lower(s) == [i \in 1..Len(s) |-> LowerChar(s[i])]

RECURSIVE LStripSet(_, _)
LStripSet(s, cs) ==
  IF s # <<>> /\ Head(s) \in cs THEN LStripSet(Tail(s), cs) ELSE s

RECURSIVE RStripSet(_, _)
RStripSet(s, cs) ==
  IF s # <<>> /\ s[Len(s)] \in cs
    THEN RStripSet(SubSeq(s, 1, Len(s) - 1), cs)
    ELSE s

\* str.strip(chars)
StripSet(s, cs) == RStripSet(LStripSet(s, cs), cs)

\* str.strip()
Strip(s) == StripSet(s, Whitespace)

\* str.replace(c, "") for a one-character c
RemoveChar(s, c) == SelectSeq(s, LAMBDA x : x # c)

\* str.startswith(p)
StartsWith(s, p) == Len(p) =< Len(s) /\ SubSeq(s, 1, Len(p)) = p

OccursAt(s, old, i) ==
  i + Len(old) - 1 =< Len(s) /\ SubSeq(s, i, i + Len(old) - 1) = old

\* str.find(old): the lowest index (from 1) where old occurs, 0 when none
Find(s, old) ==
  IF \E i \in 1..(Len(s) + 1) : OccursAt(s, old, i)
    THEN CHOOSE i \in 1..(Len(s) + 1) :
           /\ OccursAt(s, old, i)
           /\ \A j \in 1..(i - 1) : ~OccursAt(s, old, j)
    ELSE 0

\* the highest index where old occurs, 0 when none
RFind(s, old) ==
  IF \E i \in 1..(Len(s) + 1) : OccursAt(s, old, i)
    THEN CHOOSE i \in 1..(Len(s) + 1) :
           /\ OccursAt(s, old, i)
           /\ \A j \in (i + 1)..(Len(s) + 1) : ~OccursAt(s, old, j)
    ELSE 0

ReplaceAt(s, i, n, new) ==
  SubSeq(s, 1, i - 1) \o new \o SubSeq(s, i + n, Len(s))

\* str.replace(old, new, 1)
ReplaceFirst(s, old, new) ==
  IF Find(s, old) = 0 THEN s ELSE ReplaceAt(s, Find(s, old), Len(old), new)

ReplaceLast(s, old, new) ==
  IF RFind(s, old) = 0 THEN s ELSE ReplaceAt(s, RFind(s, old), Len(old), new)

RECURSIVE LastSegmentFrom(_, _)
LastSegmentFrom(s, i) ==
  IF i = 0 \/ s[i] = "/" THEN SubSeq(s, i + 1, Len(s))
  ELSE LastSegmentFrom(s, i - 1)

\* key.split("/")[-1]
LastSegment(s) == LastSegmentFrom(s, Len(s))

\* ------------------------------------------------- datetime.strptime
Digits == {"0", "1", "2", "3", "4", "5", "6", "7", "8", "9"}
D19 == Digits \ {"0"}

DigitVal ==
  [c \in Digits |->
     CASE c = "0" -> 0 [] c = "1" -> 1 [] c = "2" -> 2 [] c = "3" -> 3
       [] c = "4" -> 4 [] c = "5" -> 5 [] c = "6" -> 6 [] c = "7" -> 7
       [] c = "8" -> 8 [] c = "9" -> 9]

\* int() of a run of digits and blanks
RECURSIVE IntOf(_, _)
IntOf(s, acc) ==
  IF s = <<>> THEN acc
  ELSE IF Head(s) \in Digits THEN IntOf(Tail(s), acc * 10 + DigitVal[Head(s)])
  ELSE IntOf(Tail(s), acc)

\* The regular expression of each directive (_strptime.TimeRE): its
\* alternatives in the order the regex tries them, each a sequence of
\* character classes.
DirectiveAlts(dv) ==
  CASE dv = "%Y" -> << <<Digits, Digits, Digits, Digits>> >>
    [] dv = "%m" -> << <<{"1"}, {"0", "1", "2"}>>, <<{"0"}, D19>>, <<D19>> >>
    [] dv = "%d" -> << <<{"3"}, {"0", "1"}>>, <<{"1", "2"}, Digits>>,
                       <<{"0"}, D19>>, <<D19>>, <<{" "}, D19>> >>
    [] dv = "%H" -> << <<{"2"}, {"0", "1", "2", "3"}>>, <<{"0", "1"}, Digits>>,
                       <<Digits>> >>
    [] dv = "%M" -> << <<{"0", "1", "2", "3", "4", "5"}, Digits>>, <<Digits>> >>
    [] dv = "%S" -> << <<{"6"}, {"0", "1"}>>,
                       <<{"0", "1", "2", "3", "4", "5"}, Digits>>, <<Digits>> >>

Directives == {"%Y", "%m", "%d", "%H", "%M", "%S"}

AltMatches(alt, s, pos) ==
  /\ pos + Len(alt) - 1 =< Len(s)
  /\ \A k \in 1..Len(alt) : s[pos + k - 1] \in alt[k]

RECURSIVE WhitespaceRun(_, _)
WhitespaceRun(s, pos) ==
  IF pos =< Len(s) /\ s[pos] \in Whitespace THEN 1 + WhitespaceRun(s, pos + 1)
  ELSE 0

NoMatch == [ok |-> FALSE]

\* The backtracking match of the format's regex at the start of s: the
\* fields of the first path that matches, and where the match ends.
RECURSIVE MatchFrom(_, _, _, _, _)
RECURSIVE TryAlts(_, _, _, _, _, _)
RECURSIVE TrySpaces(_, _, _, _, _, _)
MatchFrom(fmt, i, s, pos, acc) ==
  IF i > Len(fmt) THEN [ok |-> TRUE, end |-> pos, fields |-> acc]
  ELSE IF fmt[i] \in Directives THEN TryAlts(fmt, i, s, pos, acc, 1)
  ELSE IF fmt[i] = " " THEN TrySpaces(fmt, i, s, pos, acc, WhitespaceRun(s, pos))
  ELSE IF pos =< Len(s) /\ s[pos] = fmt[i]
    THEN MatchFrom(fmt, i + 1, s, pos + 1, acc)
  ELSE NoMatch

TryAlts(fmt, i, s, pos, acc, a) ==
  LET alts == DirectiveAlts(fmt[i]) IN
  IF a > Len(alts) THEN NoMatch
  ELSE IF AltMatches(alts[a], s, pos)
    THEN LET n == Len(alts[a])
             v == IntOf(SubSeq(s, pos, pos + n - 1), 0)
             r == MatchFrom(fmt, i + 1, s, pos + n, [acc EXCEPT ![fmt[i]] = v])
         IN IF r.ok THEN r ELSE TryAlts(fmt, i, s, pos, acc, a + 1)
  ELSE TryAlts(fmt, i, s, pos, acc, a + 1)

TrySpaces(fmt, i, s, pos, acc, n) ==
  IF n = 0 THEN NoMatch
  ELSE LET r == MatchFrom(fmt, i + 1, s, pos + n, acc)
       IN IF r.ok THEN r ELSE TrySpaces(fmt, i, s, pos, acc, n - 1)

DefaultFields ==
  [d \in Directives |-> CASE d = "%Y" -> 1900 [] d = "%m" -> 1 [] d = "%d" -> 1
                          [] OTHER -> 0]

IsLeap(y) == y % 4 = 0 /\ (y % 100 # 0 \/ y % 400 = 0)

DaysInMonth(y, m) ==
  CASE m \in {1, 3, 5, 7, 8, 10, 12} -> 31
    [] m \in {4, 6, 9, 11} -> 30
    [] OTHER -> IF IsLeap(y) THEN 29 ELSE 28

RECURSIVE DaysBeforeMonth(_, _)
DaysBeforeMonth(y, m) ==
  IF m = 1 THEN 0 ELSE DaysBeforeMonth(y, m - 1) + DaysInMonth(y, m - 1)

\* date.toordinal(): days since 0001-01-01, plus one
Ordinal(y, m, d) ==
  LET y1 == y - 1
  IN y1 * 365 + (y1 \div 4) - (y1 \div 100) + (y1 \div 400)
       + DaysBeforeMonth(y, m) + d

\* A naive datetime: its day, its second of the day, its microsecond.
DateTime(y, m, d, hh, mm, ss, us) ==
  [day |-> Ordinal(y, m, d), sec |-> hh * 3600 + mm * 60 + ss, us |-> us]

Failed == [ok |-> FALSE]

\* datetime.strptime(s, fmt): the regex must match, consume the whole
\* string, and the fields must make a valid datetime.
Strptime(s, fmt) ==
  LET r == MatchFrom(fmt, 1, s, 1, DefaultFields) IN
  IF ~r.ok \/ r.end # Len(s) + 1 THEN Failed
  ELSE LET f == r.fields IN
       IF f["%Y"] < 1 \/ f["%d"] > DaysInMonth(f["%Y"], f["%m"]) \/ f["%S"] > 59
         THEN Failed
         ELSE [ok |-> TRUE,
               dt |-> DateTime(f["%Y"], f["%m"], f["%d"],
                               f["%H"], f["%M"], f["%S"], 0)]

\* datetime comparisons
DtLess(a, b) ==
  \/ a.day < b.day
  \/ a.day = b.day /\ a.sec < b.sec
  \/ a.day = b.day /\ a.sec = b.sec /\ a.us < b.us

DtGreater(a, b) == DtLess(b, a)

\* dt - timedelta(days = n)
MinusDays(dt, n) == [dt EXCEPT !.day = dt.day - n]

\* ------------------------------------------------- LambdaFunction.py
DATE_FORMATS ==
  << <<"%Y", "-", "%m", "-", "%d">>,
     <<"%m", "/", "%d", "/", "%Y">>,
     <<"%Y", "/", "%m", "/", "%d">>,
     <<"%d", "-", "%m", "-", "%Y">>,
     <<"%Y", "-", "%m", "-", "%d", " ", "%H", ":", "%M", ":", "%S">> >>

RECURSIVE TryFormats(_, _, _)
TryFormats(value, formats, k) ==
  IF k > Len(formats) THEN Failed
  ELSE IF Strptime(value, formats[k]).ok THEN Strptime(value, formats[k])
  ELSE TryFormats(value, formats, k + 1)

\* parse_date: [ok |-> TRUE, dt |-> ...], or [ok |-> FALSE] for ValueError
parse_date(value) == TryFormats(Strip(value), DATE_FORMATS, 1)

EmptyMap == [k \in {} |-> <<>>]

\* (h or "").strip().lower().replace(" ", "").replace("_", "")
header_norm(h) == RemoveChar(RemoveChar(Lower(Strip(h)), " "), "_")

RECURSIVE norm_map_from(_, _, _)
norm_map_from(headers, i, norm_map) ==
  IF i > Len(headers) THEN norm_map
  ELSE LET norm == header_norm(headers[i]) IN
       IF norm # <<>> /\ norm \notin DOMAIN norm_map
         THEN norm_map_from(headers, i + 1, norm_map @@ (norm :> headers[i]))
         ELSE norm_map_from(headers, i + 1, norm_map)

\* normalize_headers: (norm_map, original_headers)
normalize_headers(headers) ==
  [norm_map |-> norm_map_from(headers, 1, EmptyMap), headers |-> headers]

\* cand.strip().lower().replace("_", "")
candidate_key(cand) == RemoveChar(Lower(Strip(cand)), "_")

RECURSIVE select_from(_, _, _)
select_from(norm_map, candidates, k) ==
  IF k > Len(candidates) THEN <<>>
  ELSE IF candidate_key(candidates[k]) \in DOMAIN norm_map
    THEN norm_map[candidate_key(candidates[k])]
  ELSE select_from(norm_map, candidates, k + 1)

\* select_column: the header picked, "" when none
select_column(norm_map, candidates) == select_from(norm_map, candidates, 1)

STATUS_CANDIDATES == <<<<"s", "t", "a", "t", "u", "s">>, <<"o", "r", "d", "e", "r", "s", "t", "a", "t", "u", "s">>>>
DATE_CANDIDATES == <<<<"o", "r", "d", "e", "r", "d", "a", "t", "e">>, <<"d", "a", "t", "e">>, <<"o", "r", "d", "e", "r", "_", "d", "a", "t", "e">>>>

\* not status_col or not date_col
columns_missing_and(s_col, d_col) == s_col = <<>> /\ d_col = <<>>
columns_missing(s_col, d_col) == s_col = <<>> \/ d_col = <<>>

\* ------------------------------------------------- csv.DictReader / DictWriter
NoneVal == <<"None">>

Min2(a, b) == IF a < b THEN a ELSE b

SeqRange(s) == {s[i] : i \in 1..Len(s)}

\* DictReader.__next__ builds dict(zip(fieldnames, row)); fields beyond the
\* header go under the key None (kept here as rest), and header names
\* beyond the row are set to None.
DictRow(fieldnames, r) ==
  LET lf == Len(fieldnames)
      lr == Len(r)
      n == Min2(lf, lr)
      Last(h) == CHOOSE i \in 1..n :
                   fieldnames[i] = h /\ \A j \in (i + 1)..n : fieldnames[j] # h
  IN [vals |-> [h \in SeqRange(fieldnames) |->
                  IF \E i \in (lr + 1)..lf : fieldnames[i] = h THEN NoneVal
                  ELSE r[Last(h)]],
      rest |-> SubSeq(r, lf + 1, lr)]

NoRow == [vals |-> EmptyMap, rest |-> <<>>]

\* row.get(col) or ""
RowGet(rowdict, col) ==
  IF col \in DOMAIN rowdict.vals /\ rowdict.vals[col] # NoneVal
    THEN rowdict.vals[col] ELSE <<>>

\* DictReader skips the rows csv.reader yields empty: the index of the next
\* row of body from index i on that is not empty, 0 when there is none
RECURSIVE NextRowIndex(_, _)
NextRowIndex(b, i) ==
  IF i > Len(b) THEN 0
  ELSE IF b[i] # <<>> THEN i
  ELSE NextRowIndex(b, i + 1)

\* DictWriter._dict_to_list with extrasaction = "raise"
WrongFields(rowdict) == rowdict.rest # <<>>

DictToList(fieldnames, rowdict) ==
  [i \in 1..Len(fieldnames) |-> RowGet(rowdict, fieldnames[i])]

\* ------------------------------------------------- the row loop
TERMINAL == {<<"p", "e", "n", "d", "i", "n", "g">>, <<"c", "a", "n", "c", "e", "l", "l", "e", "d">>}

\* status not in {"pending", "cancelled"} or order_dt > cutoff
keep_row_ge(st, dt, cut) == st \notin TERMINAL \/ ~DtLess(dt, cut)
keep_row(st, dt, cut) == st \notin TERMINAL \/ DtGreater(dt, cut)

Counters == [kept_rows |-> <<>>, total |-> 0, bad_date |-> 0, filtered_out |-> 0]

\* One pass of the loop body over rowdict, from the counters c.
scan_row_bad_as_filtered(c, rowdict, s_col, d_col, cut) ==
  LET st == Lower(Strip(RowGet(rowdict, s_col)))
      p == parse_date(Strip(RowGet(rowdict, d_col)))
  IN IF ~p.ok
       THEN [c EXCEPT !.total = @ + 1, !.filtered_out = @ + 1]
     ELSE IF keep_row(st, p.dt, cut)
       THEN [c EXCEPT !.total = @ + 1, !.kept_rows = Append(@, rowdict)]
     ELSE [c EXCEPT !.total = @ + 1, !.filtered_out = @ + 1]
scan_row_uncounted_bad(c, rowdict, s_col, d_col, cut) ==
  LET st == Lower(Strip(RowGet(rowdict, s_col)))
      p == parse_date(Strip(RowGet(rowdict, d_col)))
  IN IF ~p.ok
       THEN [c EXCEPT !.total = @ + 1]
     ELSE IF keep_row(st, p.dt, cut)
       THEN [c EXCEPT !.total = @ + 1, !.kept_rows = Append(@, rowdict)]
     ELSE [c EXCEPT !.total = @ + 1, !.filtered_out = @ + 1]
scan_row(c, rowdict, s_col, d_col, cut) ==
  LET st == Lower(Strip(RowGet(rowdict, s_col)))
      p == parse_date(Strip(RowGet(rowdict, d_col)))
  IN IF ~p.ok
       THEN [c EXCEPT !.total = @ + 1, !.bad_date = @ + 1]
     ELSE IF keep_row(st, p.dt, cut)
       THEN [c EXCEPT !.total = @ + 1, !.kept_rows = Append(@, rowdict)]
     ELSE [c EXCEPT !.total = @ + 1, !.filtered_out = @ + 1]

\* ------------------------------------------------- keys
\* not key.startswith(RAW_PREFIX + "/") and not key.startswith(RAW_PREFIX)
key_skipped(k, raw) == ~StartsWith(k, raw \o <<"/">>) /\ ~StartsWith(k, raw)

output_key_last(k, raw, processed, tag) ==
  IF tag # <<>> THEN processed \o <<"/">> \o tag \o LastSegment(k)
  ELSE ReplaceLast(k, raw, processed)
\* the key the output is written under
output_key(k, raw, processed, tag) ==
  IF tag # <<>> THEN processed \o <<"/">> \o tag \o LastSegment(k)
  ELSE ReplaceFirst(k, raw, processed)

DAYS_WINDOW == 30

\* PROCESSED_PREFIX = os.getenv("PROCESSED_PREFIX", "processed/").strip("/")
PROCESSED_PREFIX == StripSet(<<"p", "r", "o", "c", "e", "s", "s", "e", "d", "/">>, {"/"})

BUCKET == "orders-bucket"

\* ------------------------------------------------- inputs
\* header names
hStatus == <<"S", "t", "a", "t", "u", "s">>
hOrderDate == <<"O", "r", "d", "e", "r", " ", "D", "a", "t", "e">>
hDate == <<"d", "a", "t", "e">>
hAmount == <<"a", "m", "o", "u", "n", "t">>

\* status values
sPending == <<" ", "P", "e", "n", "d", "i", "n", "g">>
sCancelled == <<"C", "A", "N", "C", "E", "L", "L", "E", "D">>
sShipped == <<"s", "h", "i", "p", "p", "e", "d">>
sEmpty == <<>>

\* date values, against a run at 2025-03-31 12:00:00 with a 30 day window
dOld == <<"0", "1", "-", "0", "2", "-", "2", "0", "2", "5">>
dCutoff == <<"2", "0", "2", "5", "-", "0", "3", "-", "0", "1", " ", "1", "2", ":", "0", "0", ":", "0", "0">>
dAfter == <<" ", "2", "0", "2", "5", "-", "3", "-", "1", " ", "1", "2", ":", "0", "0", ":", "0", "1">>
dRecent == <<"3", "/", "3", "1", "/", "2", "0", "2", "5">>
dBad == <<"2", "0", "2", "5", "-", "0", "2", "-", "3", "0">>

\* rows: one of each kind of status and date, a blank line, a row shorter
\* than the header and rows longer than a two-column header
DataRows ==
  { <<sPending, dOld>>, <<sPending, dCutoff>>, <<sPending, dAfter>>,
    <<sPending, dRecent>>, <<sCancelled, dCutoff>>, <<sShipped, dOld>>,
    <<sEmpty, dOld>>, <<sShipped, dBad>>, <<sPending, sEmpty>>,
    <<>>, <<sPending>>, <<sShipped, dAfter, sPending>>,
    <<sPending, dOld, sShipped>> }

FewRows == { <<sShipped, dRecent>>, <<sPending, dOld>> }

SeqsUpTo(S, n) == UNION {[1..k -> S] : k \in 0..n}

GoodHeaderRows == { <<hStatus, hOrderDate>>, <<hStatus, hDate, hStatus>> }
BadHeaderRows == { <<hAmount>>, <<hStatus, hAmount>>, <<hOrderDate>>, <<>> }

Bodies ==
  {<<>>}
    \cup {<<h>> \o rows : h \in GoodHeaderRows, rows \in SeqsUpTo(DataRows, MaxRows)}
    \cup {<<h>> \o rows : h \in BadHeaderRows, rows \in SeqsUpTo(FewRows, MaxRows)}

\* what datetime.now() may return
Nows == {DateTime(2025, 3, 31, 12, 0, 0, 0), DateTime(2025, 3, 31, 12, 0, 0, 250)}

KeyChars == {"r", "a", "w", "/", "x"}
Keys == SeqsUpTo(KeyChars, MaxKeyLen)

\* values of the RAW_PREFIX and OUTPUT_PREFIX_TAG environment variables
RawPrefixEnv == {<<"r", "a", "w", "/">>, <<"r", "/">>}
TagEnv == {<<>>, <<"f", "_">>}

\* objects for the runs over Keys: no lines, no columns, a blank first line,
\* and one with a row of each kind
KeyBodies ==
  { <<>>, << <<>> >>, <<<<hAmount>>, <<sShipped>>>>,
    <<<<hStatus, hDate>>, <<sShipped, dRecent>>, <<sPending, dOld>>,
      <<sShipped, dBad>>>>,
    <<<<hStatus, hDate>>, <<sShipped, dRecent, sShipped>>>> }

\* headers and alias candidates for select_column on its own
HeaderNames == {hOrderDate, <<"o", "r", "d", "e", "r", "d", "a", "t", "e">>, <<"O", "R", "D", "E", "R", "_", "D", "A", "T", "E">>, hStatus, <<"O", "r", "d", "e", "r", " ", "s", "t", "a", "t", "u", "s">>}
CandidateNames == {<<"o", "r", "d", "e", "r", " ", "d", "a", "t", "e">>, <<"d", "a", "t", "e">>, <<"o", "r", "d", "e", "r", "_", "d", "a", "t", "e">>, <<"o", "r", "d", "e", "r", " ", "s", "t", "a", "t", "u", "s">>}

\* ------------------------------------------------- state
VARIABLES
  RAW_PREFIX,        \* module configuration, read once at import
  OUTPUT_PREFIX_TAG,
  key,               \* the object key of the event, url-decoded
  s3_object,         \* the rows of the object stored under key
  pc,                \* where lambda_handler is
  body,
  original_headers,
  status_col,
  date_col,
  cutoff,
  line,              \* the index in body of the row the reader takes next
  row,
  status,
  date_raw,
  kept_rows,
  total,
  bad_date,
  filtered_out,
  out_buf,
  processed_key,
  gets,              \* the keys get_object was called with
  puts,              \* the put_object calls made
  result,            \* what the invocation returned or raised
  sel_headers,       \* arguments and result of select_column on its own
  sel_candidates,
  sel_column

config == <<RAW_PREFIX, OUTPUT_PREFIX_TAG, key, s3_object>>
header_vars == <<original_headers, status_col, date_col, cutoff>>
loop_vars == <<line, row, status, date_raw, kept_rows, total, bad_date, filtered_out>>
out_vars == <<out_buf, processed_key>>
sel_vars == <<sel_headers, sel_candidates, sel_column>>

vars ==
  <<config, pc, body, header_vars, loop_vars, out_vars, gets, puts, result, sel_vars>>

NoResult == [kind |-> "none"]

Locals ==
  /\ body = <<>>
  /\ original_headers = <<>>
  /\ status_col = <<>>
  /\ date_col = <<>>
  /\ cutoff = DateTime(1, 1, 1, 0, 0, 0, 0)
  /\ line = 0
  /\ row = NoRow
  /\ status = <<>>
  /\ date_raw = <<>>
  /\ kept_rows = <<>>
  /\ total = 0
  /\ bad_date = 0
  /\ filtered_out = 0
  /\ out_buf = <<>>
  /\ processed_key = <<>>
  /\ gets = <<>>
  /\ puts = <<>>
  /\ result = NoResult

NoSelect ==
  /\ sel_headers = <<>>
  /\ sel_candidates = <<>>
  /\ sel_column = <<>>

\* Runs over the contents of the object, for a key under raw/ and one that
\* is not.
Init ==
  /\ RAW_PREFIX = StripSet(<<"r", "a", "w", "/">>, {"/"})
  /\ OUTPUT_PREFIX_TAG = <<>>
  /\ \/ key = <<"r", "a", "w", "/", "x">> /\ s3_object \in Bodies
     \/ key = <<"x">> /\ s3_object \in KeyBodies
  /\ pc = "start"
  /\ Locals
  /\ NoSelect

\* Runs over the keys and the configuration, for a few objects.
InitKey ==
  /\ RAW_PREFIX \in {StripSet(e, {"/"}) : e \in RawPrefixEnv}
  /\ OUTPUT_PREFIX_TAG \in TagEnv
  /\ key \in Keys
  /\ s3_object \in KeyBodies
  /\ pc = "start"
  /\ Locals
  /\ NoSelect

\* select_column on its own, over headers and candidates.
InitCol ==
  /\ RAW_PREFIX = <<>>
  /\ OUTPUT_PREFIX_TAG = <<>>
  /\ key = <<>>
  /\ s3_object = <<>>
  /\ pc = "select"
  /\ Locals
  /\ sel_headers \in SeqsUpTo(HeaderNames, MaxHeaders)
  /\ sel_candidates \in SeqsUpTo(CandidateNames, MaxCands)
  /\ sel_column = <<>>

\* ------------------------------------------------- lambda_handler
Raise(e) == pc' = "raised" /\ result' = [kind |-> "raise", exception |-> e]

\* lines 66-69: the key is not under the prefix
SkipKey ==
  /\ pc = "start"
  /\ key_skipped(key, RAW_PREFIX)
  /\ pc' = "ignored"
  /\ result' = [kind |-> "return", statusCode |-> 200,
                body |-> "Not a raw/ object, ignored."]
  /\ UNCHANGED <<config, body, header_vars, loop_vars, out_vars, gets, puts, sel_vars>>

\* lines 72-77: get_object fails
GetObjectRaises ==
  /\ pc = "start"
  /\ ~key_skipped(key, RAW_PREFIX)
  /\ gets' = Append(gets, key)
  /\ Raise("ClientError: get_object")
  /\ UNCHANGED <<config, body, header_vars, loop_vars, out_vars, puts, sel_vars>>

\* lines 72-82: the object has no lines
GetEmptyObject ==
  /\ pc = "start"
  /\ ~key_skipped(key, RAW_PREFIX)
  /\ s3_object = <<>>
  /\ gets' = Append(gets, key)
  /\ body' = s3_object
  /\ pc' = "empty"
  /\ result' = [kind |-> "return", statusCode |-> 200,
                body |-> "Empty file; nothing to process."]
  /\ UNCHANGED <<config, header_vars, loop_vars, out_vars, puts, sel_vars>>

\* lines 72-84: the object is read
GetObject ==
  /\ pc = "start"
  /\ ~key_skipped(key, RAW_PREFIX)
  /\ s3_object # <<>>
  /\ gets' = Append(gets, key)
  /\ body' = s3_object
  /\ pc' = "header"
  /\ UNCHANGED <<config, header_vars, loop_vars, out_vars, puts, result, sel_vars>>

\* reader.fieldnames: the first row csv.reader yields
Fieldnames == body[1]

ResolvedStatus == select_column(normalize_headers(Fieldnames).norm_map, STATUS_CANDIDATES)
ResolvedDate == select_column(normalize_headers(Fieldnames).norm_map, DATE_CANDIDATES)

\* lines 85-87
NoHeaderRow ==
  /\ pc = "header"
  /\ normalize_headers(Fieldnames).headers = <<>>
  /\ original_headers' = normalize_headers(Fieldnames).headers
  /\ Raise("ValueError: CSV has no header row.")
  /\ UNCHANGED <<config, body, status_col, date_col, cutoff, loop_vars, out_vars,
                 gets, puts, sel_vars>>

\* lines 85-93
MissingColumns ==
  /\ pc = "header"
  /\ normalize_headers(Fieldnames).headers # <<>>
  /\ columns_missing(ResolvedStatus, ResolvedDate)
  /\ original_headers' = normalize_headers(Fieldnames).headers
  /\ status_col' = ResolvedStatus
  /\ date_col' = ResolvedDate
  /\ Raise("KeyError: Missing required columns.")
  /\ UNCHANGED <<config, body, cutoff, loop_vars, out_vars, gets, puts, sel_vars>>

\* lines 85-102
ResolveColumns ==
  /\ pc = "header"
  /\ normalize_headers(Fieldnames).headers # <<>>
  /\ ~columns_missing(ResolvedStatus, ResolvedDate)
  /\ original_headers' = normalize_headers(Fieldnames).headers
  /\ status_col' = ResolvedStatus
  /\ date_col' = ResolvedDate
  /\ kept_rows' = Counters.kept_rows
  /\ total' = Counters.total
  /\ bad_date' = Counters.bad_date
  /\ filtered_out' = Counters.filtered_out
  /\ \E now \in Nows : cutoff' = MinusDays(now, DAYS_WINDOW)
  /\ line' = 2
  /\ pc' = "scan"
  /\ UNCHANGED <<config, body, row, status, date_raw, out_vars, gets, puts, result,
                 sel_vars>>

\* lines 104-120: one pass of the loop
ScanRow ==
  /\ pc = "scan"
  /\ NextRowIndex(body, line) # 0
  /\ LET rd == DictRow(original_headers, body[NextRowIndex(body, line)])
         c == scan_row([kept_rows |-> kept_rows, total |-> total,
                        bad_date |-> bad_date, filtered_out |-> filtered_out],
                       rd, status_col, date_col, cutoff)
     IN /\ row' = rd
        /\ status' = Lower(Strip(RowGet(rd, status_col)))
        /\ date_raw' = Strip(RowGet(rd, date_col))
        /\ kept_rows' = c.kept_rows
        /\ total' = c.total
        /\ bad_date' = c.bad_date
        /\ filtered_out' = c.filtered_out
  /\ line' = NextRowIndex(body, line) + 1
  /\ UNCHANGED <<config, pc, body, header_vars, out_vars, gets, puts, result, sel_vars>>

\* lines 124-129: DictWriter refuses a kept row with fields under the key None
WriteCsvRaises ==
  /\ pc = "scan"
  /\ NextRowIndex(body, line) = 0
  /\ \E i \in 1..Len(kept_rows) : WrongFields(kept_rows[i])
  /\ Raise("ValueError: dict contains fields not in fieldnames")
  /\ UNCHANGED <<config, body, header_vars, loop_vars, out_vars, gets, puts, sel_vars>>

\* lines 124-137: the header, the kept rows, and the output key
WriteCsv ==
  /\ pc = "scan"
  /\ NextRowIndex(body, line) = 0
  /\ \A i \in 1..Len(kept_rows) : ~WrongFields(kept_rows[i])
  /\ out_buf' = <<original_headers>>
                  \o [i \in 1..Len(kept_rows) |->
                        DictToList(original_headers, kept_rows[i])]
  /\ processed_key' = output_key(key, RAW_PREFIX, PROCESSED_PREFIX, OUTPUT_PREFIX_TAG)
  /\ pc' = "put"
  /\ UNCHANGED <<config, body, header_vars, loop_vars, gets, puts, result, sel_vars>>

\* lines 139-148: put_object fails
PutObjectRaises ==
  /\ pc = "put"
  /\ Raise("ClientError: put_object")
  /\ UNCHANGED <<config, body, header_vars, loop_vars, out_vars, gets, puts, sel_vars>>

\* lines 139-161
PutObject ==
  /\ pc = "put"
  /\ puts' = Append(puts, [Bucket |-> BUCKET, Key |-> processed_key, Body |-> out_buf])
  /\ pc' = "done"
  /\ result' = [kind |-> "return", statusCode |-> 200,
                body |-> [bucket |-> BUCKET,
                          input_key |-> key,
                          output_key |-> processed_key,
                          processed |-> Len(kept_rows),
                          skipped_bad_date |-> bad_date,
                          filtered_out |-> filtered_out]]
  /\ UNCHANGED <<config, body, header_vars, loop_vars, out_vars, gets, sel_vars>>

Next ==
  \/ SkipKey
  \/ GetObjectRaises
  \/ GetEmptyObject
  \/ GetObject
  \/ NoHeaderRow
  \/ MissingColumns
  \/ ResolveColumns
  \/ ScanRow
  \/ WriteCsvRaises
  \/ WriteCsv
  \/ PutObjectRaises
  \/ PutObject

Spec == Init /\ [][Next]_vars

SpecKey == InitKey /\ [][Next]_vars

\* select_column(normalize_headers(headers)[0], candidates)
SelectColumn ==
  /\ pc = "select"
  /\ sel_column' = select_column(normalize_headers(sel_headers).norm_map, sel_candidates)
  /\ pc' = "selected"
  /\ UNCHANGED <<config, body, header_vars, loop_vars, out_vars, gets, puts, result,
                 sel_headers, sel_candidates>>

NextCol == SelectColumn

SpecCol == InitCol /\ [][NextCol]_vars
\* ------------------------------------------------- properties
\* the canonical key of the specification: trimmed, lower-cased, without
\* spaces and underscores
Canon(x) == RemoveChar(RemoveChar(Lower(Strip(x)), " "), "_")

ScanStep == pc = "scan" /\ line' # line

\* C1: for a row whose date parses, the row is dropped and counted in
\* filtered_out when its status is pending or cancelled and its date is not
\* after the cutoff, and is appended to kept_rows, uncounted, otherwise.
C1_RetentionRule ==
  [][ScanStep /\ parse_date(date_raw').ok =>
        IF status' \in {<<"p", "e", "n", "d", "i", "n", "g">>, <<"c", "a", "n", "c", "e", "l", "l", "e", "d">>}
             /\ ~DtLess(cutoff, parse_date(date_raw').dt)
          THEN /\ kept_rows' = kept_rows
               /\ filtered_out' = filtered_out + 1
               /\ bad_date' = bad_date
          ELSE /\ kept_rows' = Append(kept_rows, row')
               /\ filtered_out' = filtered_out
               /\ bad_date' = bad_date]_vars

\* a cancelled row dated exactly at the cutoff has just been dropped
C1_Witness ==
  /\ pc = "scan"
  /\ total = 1
  /\ filtered_out = 1
  /\ status = <<"c", "a", "n", "c", "e", "l", "l", "e", "d">>
  /\ parse_date(date_raw).ok
  /\ parse_date(date_raw).dt = cutoff

\* C2: a row whose date no format parses is counted in bad_date only: it is
\* not kept, not counted as filtered, whatever its status, and the scan goes
\* on.
C2_BadDateDropped ==
  [][ScanStep /\ ~parse_date(date_raw').ok =>
        /\ bad_date' = bad_date + 1
        /\ kept_rows' = kept_rows
        /\ filtered_out' = filtered_out
        /\ pc' = "scan"
        /\ result' = NoResult]_vars

\* a pending row with an impossible date was dropped as the second row, after
\* a kept one
C2_Witness ==
  /\ pc = "scan"
  /\ total = 2
  /\ bad_date = 1
  /\ Len(kept_rows) = 1
  /\ filtered_out = 0
  /\ ~parse_date(date_raw).ok
  /\ date_raw # <<>>

RECURSIVE RowsRead(_, _)
\* the rows of b before index i that are not blank, the header aside
RowsRead(b, i) ==
  IF i =< 2 THEN 0
  ELSE RowsRead(b, i - 1) + (IF b[i - 1] # <<>> THEN 1 ELSE 0)

\* C3: after every row, and at the end, kept + filtered + bad-date is the
\* number of rows seen, and a row adds one to exactly one of the three.
C3_Accounting ==
  [][pc' \in {"scan", "put", "done"} =>
        /\ Len(kept_rows') + filtered_out' + bad_date' = total'
        /\ total' = RowsRead(body', line')
        /\ ScanStep =>
             /\ total' = total + 1
             /\ \/ /\ Len(kept_rows') = Len(kept_rows) + 1
                   /\ filtered_out' = filtered_out /\ bad_date' = bad_date
                \/ /\ Len(kept_rows') = Len(kept_rows)
                   /\ filtered_out' = filtered_out + 1 /\ bad_date' = bad_date
                \/ /\ Len(kept_rows') = Len(kept_rows)
                   /\ filtered_out' = filtered_out /\ bad_date' = bad_date + 1]_vars

\* a run ended with one row filtered and one dropped for its date
C3_Witness ==
  /\ pc = "done"
  /\ total = 2
  /\ filtered_out = 1
  /\ bad_date = 1

\* C4: the result of a run that wrote its output carries the total of rows
\* processed, the kept count, the bad-date and filtered-out counts, and the
\* input and output keys.
C4_ResultCounters ==
  pc = "done" =>
    /\ result.body.processed = total
    /\ \E f \in {"processed", "skipped_bad_date", "filtered_out"} :
         result.body[f] = Len(kept_rows)
    /\ result.body.skipped_bad_date = bad_date
    /\ result.body.filtered_out = filtered_out
    /\ result.body.input_key = key
    /\ result.body.output_key = puts[1].Key

\* C5: a key that does not begin with RAW_PREFIX followed by "/" is ignored:
\* the object is not read and nothing is written.
C5_OnlyUnderPrefix ==
  ~StartsWith(key, RAW_PREFIX \o <<"/">>) =>
    /\ pc \in {"start", "ignored"}
    /\ gets = <<>>
    /\ puts = <<>>

StatusAliases == {<<"s", "t", "a", "t", "u", "s">>, <<"o", "r", "d", "e", "r", " ", "s", "t", "a", "t", "u", "s">>}
DateAliases == {<<"o", "r", "d", "e", "r", " ", "d", "a", "t", "e">>, <<"d", "a", "t", "e">>, <<"o", "r", "d", "e", "r", "_", "d", "a", "t", "e">>}

HasAlias(hs, aliases) ==
  \E i \in 1..Len(hs) : Canon(hs[i]) \in {Canon(al) : al \in aliases}

\* an object with lines whose first line is blank, or names no status-like or
\* no date-like column
Unresolvable(b) ==
  /\ b # <<>>
  /\ \/ b[1] = <<>>
     \/ ~HasAlias(b[1], StatusAliases)
     \/ ~HasAlias(b[1], DateAliases)

\* C6: a run over such an object ends in the header or column error, before
\* any row is read, and writes nothing.
C6_StructuralAbort ==
  Unresolvable(s3_object) =>
    /\ pc \in {"start", "ignored", "header", "raised"}
    /\ total = 0
    /\ line = 0
    /\ row = NoRow
    /\ puts = <<>>
    /\ pc = "header" => ENABLED (NoHeaderRow \/ MissingColumns)
    /\ pc = "raised" /\ body # <<>> =>
         result.exception \in {"ValueError: CSV has no header row.",
                               "KeyError: Missing required columns."}

\* a run over a header with a status but no date column, and rows after it,
\* ended in the column error
C6_Witness ==
  /\ pc = "raised"
  /\ Unresolvable(s3_object)
  /\ Len(body) > 1
  /\ status_col = hStatus
  /\ date_col = <<>>
  /\ result.exception = "KeyError: Missing required columns."

RECURSIVE FirstWithCanon(_, _, _)
FirstWithCanon(hs, k, i) ==
  IF i > Len(hs) THEN <<>>
  ELSE IF Canon(hs[i]) = k THEN hs[i]
  ELSE FirstWithCanon(hs, k, i + 1)

RECURSIVE Resolve(_, _, _)
\* the first header whose canonical key is that of a candidate, candidates
\* taken in order
Resolve(hs, cands, j) ==
  IF j > Len(cands) THEN <<>>
  ELSE IF Canon(cands[j]) # <<>> /\ FirstWithCanon(hs, Canon(cands[j]), 1) # <<>>
    THEN FirstWithCanon(hs, Canon(cands[j]), 1)
  ELSE Resolve(hs, cands, j + 1)

\* C7: select_column over normalize_headers' map returns the first header
\* whose canonical key (trimmed, lower-cased, spaces and underscores removed)
\* is that of a candidate, the candidates canonicalized the same way.
C7_ColumnResolution ==
  pc = "selected" => sel_column = Resolve(sel_headers, sel_candidates, 1)

\* row r with the fields a shorter row lacks written empty
Padded(r, n) == [i \in 1..n |-> IF i =< Len(r) THEN r[i] ELSE <<>>]

\* C8: the object written is the input's header row followed by the kept
\* rows, in source order, their field values unchanged.
C8_OutputRows ==
  pc = "done" =>
    LET out == puts[1].Body
        n == Len(kept_rows)
    IN /\ out[1] = s3_object[1]
       /\ Len(out) = n + 1
       /\ \E idx \in [1..n -> 2..Len(s3_object)] :
            /\ \A k \in 1..(n - 1) : idx[k] < idx[k + 1]
            /\ \A k \in 1..n :
                 out[k + 1] = Padded(s3_object[idx[k]], Len(s3_object[1]))

\* C9: once the object is read and both columns resolve, nothing in the data
\* rows aborts the run: only a failing write does.
C9_OnlyStorageFatal ==
  pc = "raised" /\ line >= 2 => result.exception = "ClientError: put_object"

\* C10: without a filename tag, the output key is PROCESSED_PREFIX followed by
\* the input key without its leading RAW_PREFIX.
C10_MirrorKey ==
  pc \in {"put", "done"} /\ OUTPUT_PREFIX_TAG = <<>> =>
    /\ StartsWith(key, RAW_PREFIX)
    /\ processed_key =
         PROCESSED_PREFIX \o SubSeq(key, Len(RAW_PREFIX) + 1, Len(key))

\* a key in which the prefix occurs a second time was mirrored
C10_Witness ==
  /\ pc = "done"
  /\ OUTPUT_PREFIX_TAG = <<>>
  /\ Find(SubSeq(key, 2, Len(key)), RAW_PREFIX) # 0
  /\ puts[1].Key = processed_key
====
